---- MODULE Spec2Model ----
(***************************************************************************)
(* A model of ListFiles.py: human_size, dir_size, list_tree,               *)
(* choose_excluded_folders and main.                                       *)
(*                                                                         *)
(* Text is a sequence of one-character strings.  A byte count handed to    *)
(* human_size is a little-endian sequence of base-1024 limbs, because the  *)
(* counts of interest (1024 PB is 2^60) exceed the integers of the model   *)
(* checker; the float held by human_size after k divisions by 1024.0 is    *)
(* the pair of its integer limbs and its fraction limbs.                   *)
(***************************************************************************)
EXTENDS Integers, Sequences, FiniteSets, TLC

VARIABLES
    mode,        \* which entry point this behaviour runs
    pc,          \* position in the running function
    fs,          \* the directory tree on disk (not changed by the program)
    stdin,       \* the lines the user will type, first one first
    root,        \* main: root
    excluded,    \* main: excluded; the excluded of the outermost call of list_tree
    follow,      \* follow_symlinks of the outermost call of list_tree
    size_bytes,  \* main: size_bytes
    stack,       \* the activations of list_tree, innermost last
    out,         \* everything printed so far, in order
    exit_status, \* the status passed to sys.exit, or -1 while running
    hs_arg,      \* human_size: the argument of a direct call
    hs_ret       \* human_size: the value returned by a direct call

vars == <<mode, pc, fs, stdin, root, excluded, follow, size_bytes, stack, out,
          exit_status, hs_arg, hs_ret>>

----------------------------------------------------------------------------
(* Text helpers *)

RECURSIVE rstrip(_, _)
\* str.rstrip(chars): drop every trailing character that is in chars.
rstrip(s, chars) ==
    IF s # <<>> /\ s[Len(s)] \in chars
    THEN rstrip(SubSeq(s, 1, Len(s) - 1), chars)
    ELSE s

RECURSIVE lstrip(_, _)
\* str.lstrip(chars): drop every leading character that is in chars.
lstrip(s, chars) ==
    IF s # <<>> /\ s[1] \in chars THEN lstrip(Tail(s), chars) ELSE s

\* str.strip(): drop leading and trailing whitespace.
strip(s) == lstrip(rstrip(s, {" "}), {" "})

\* The decimal digits, by value plus one.
DecDigit == <<"0", "1", "2", "3", "4", "5", "6", "7", "8", "9">>

RECURSIVE Dec(_)
\* The decimal text of a natural number, as f"{n}" gives it.
Dec(n) == IF n < 10 THEN <<DecDigit[n + 1]>>
          ELSE Dec(n \div 10) \o <<DecDigit[(n % 10) + 1]>>

----------------------------------------------------------------------------
(* human_size *)

\* The binary unit step of human_size.
Base == 1024

\* Half a unit of the most significant fraction limb.
HalfBase == Base \div 2

Units == << <<"K", "B">>, <<"M", "B">>, <<"G", "B">>, <<"T", "B">>, <<"P", "B">> >>

RECURSIVE Limbs(_)
\* A natural number as little-endian base-1024 limbs, no leading zero limb.
Limbs(n) == IF n = 0 THEN <<>> ELSE <<n % Base>> \o Limbs(n \div Base)

RECURSIVE LimbsToNat(_)
\* The number a limb sequence stands for.
LimbsToNat(l) == IF l = <<>> THEN 0 ELSE Head(l) + Base * LimbsToNat(Tail(l))

\* An integer byte count as the float human_size starts from.
ToFloat(n) == [ip |-> n, fp |-> <<>>]

\* nbytes /= 1024.0: the lowest integer limb becomes the top fraction limb.
Div1024(x) ==
    [ip |-> IF x.ip = <<>> THEN <<>> ELSE Tail(x.ip),
     fp |-> Append(x.fp, IF x.ip = <<>> THEN 0 ELSE Head(x.ip))]

\* nbytes < 1024 (and nbytes < 1024.0): at most one integer limb.
Below1024(x) == Len(x.ip) <= 1

RECURSIVE MulFrac(_, _, _)
\* fraction limbs f (little-endian) times m, with carry c coming in at the low
\* end: the product's fraction limbs and the integer carried out at the top.
MulFrac(f, m, c) ==
    IF f = <<>> THEN [frac |-> <<>>, carry |-> c]
    ELSE LET p == Head(f) * m + c
             r == MulFrac(Tail(f), m, p \div Base)
         IN  [frac |-> <<p % Base>> \o r.frac, carry |-> r.carry]

\* 1 when a fraction rounds up to the next integer under round-half-to-even,
\* given the parity of the integer q below it; else 0.
RoundUp(frac, q) ==
    IF frac = <<>> THEN 0
    ELSE LET top == frac[Len(frac)]
             low == SubSeq(frac, 1, Len(frac) - 1)
             lowZero == \A i \in 1..Len(low) : low[i] = 0
         IN  IF top > HalfBase \/ (top = HalfBase /\ ~lowZero) THEN 1
             ELSE IF top = HalfBase /\ lowZero /\ q % 2 = 1 THEN 1
             ELSE 0

\* f"{x:.2f}": x correctly rounded to two decimals (ties to even).
Format2f(x) ==
    LET m == MulFrac(x.fp, 100, 0)
        h == m.carry + RoundUp(m.frac, m.carry)
        i == LimbsToNat(x.ip) + (IF h = 100 THEN 1 ELSE 0)
        c == IF h = 100 THEN 0 ELSE h
    IN  Dec(i) \o <<".">> \o <<DecDigit[(c \div 10) + 1], DecDigit[(c % 10) + 1]>>

RECURSIVE HumanLoop(_, _)
\* The for loop of human_size from unit number i on, and the return after it.
HumanLoop(x, i) ==
    LET y == Div1024(x)
    IN  IF Below1024(y)
        THEN rstrip(rstrip(Format2f(y), {"0"}), {"."}) \o Units[i]
        ELSE IF i = Len(Units)
        THEN Format2f(y) \o <<"P", "B">>
        ELSE HumanLoop(y, i + 1)

human_size(nbytes) ==
    IF Below1024(ToFloat(nbytes))
    THEN Dec(LimbsToNat(nbytes)) \o <<"B">>
    ELSE HumanLoop(ToFloat(nbytes), 1)

----------------------------------------------------------------------------
(* The directory tree on disk, as the os functions see it *)

\* The entry names that occur in the tree.
NameA == <<"a">>
NameB == <<"B">>
Nameb == <<"b">>
Names == {NameA, NameB, Nameb}

\* The tree hangs below the directory /d.
Mount == <<"d">>

\* What a path can be: a regular file, a readable directory, a directory
\* whose listing is refused (or that vanished after it was seen), a symbolic
\* link to a readable directory outside the tree, a dangling symbolic link,
\* or nothing at all.
TopKinds == {"absent", "file", "dir", "nodir", "link", "broken"}
SubKinds == {"absent", "file", "dir"}
SubNames == {NameA, NameB}
LeafName == Nameb

\* The number of levels of the tree below /d.
MaxDepth == 3

\* fs.top gives the kind of each entry of /d and fs.sub the kind of each
\* entry of a directory (or link target) of /d.  Every directory further
\* down holds one file LeafName and, above the last level, one directory
\* NameA.  fs.rev tells in which order the disk lists entries.
FileSystems == [top : [Names -> TopKinds], sub : [SubNames -> SubKinds], rev : BOOLEAN]

RECURSIVE split(_, _)
\* str.split(sep) for a one-character sep: empty pieces are kept.
split(s, sep) ==
    IF \A i \in 1..Len(s) : s[i] # sep THEN <<s>>
    ELSE LET k == CHOOSE i \in 1..Len(s) :
                      s[i] = sep /\ \A j \in 1..(i - 1) : s[j] # sep
         IN  <<SubSeq(s, 1, k - 1)>> \o split(SubSeq(s, k + 1, Len(s)), sep)

\* The components of a path string, as path resolution reads them.
Components(path) == SelectSeq(split(path, "/"), LAMBDA c : c # <<>>)

\* os.path.basename: what follows the last slash.
basename(path) == LET parts == split(path, "/") IN parts[Len(parts)]

\* os.path.join(path, name) for a relative name.
join(path, name) ==
    IF path = <<>> \/ path[Len(path)] = "/" THEN path \o name
    ELSE path \o <<"/">> \o name

RECURSIVE NodeKind(_, _)
\* The kind of the entry a component sequence below the mount point names.
NodeKind(f, node) ==
    CASE Len(node) = 0 -> "dir"
      [] Len(node) = 1 -> IF node[1] \in Names THEN f.top[node[1]] ELSE "absent"
      [] Len(node) = 2 ->
            IF node[1] \in Names /\ f.top[node[1]] \in {"dir", "link"} /\ node[2] \in SubNames
            THEN f.sub[node[2]] ELSE "absent"
      [] Len(node) > 2 /\ Len(node) <= MaxDepth ->
            IF NodeKind(f, SubSeq(node, 1, Len(node) - 1)) # "dir" THEN "absent"
            ELSE IF node[Len(node)] = LeafName THEN "file"
            ELSE IF node[Len(node)] = NameA /\ Len(node) < MaxDepth THEN "dir"
            ELSE "absent"
      [] OTHER -> "absent"

\* The kind of the entry a path string names.
Kind(f, path) ==
    LET c == Components(path)
    IN  IF path = <<>> \/ path[1] # "/" \/ c = <<>> \/ c[1] # Mount THEN "absent"
        ELSE NodeKind(f, Tail(c))

\* An existence test that accepts every path.
existsAlways(f, path) == TRUE

\* os.path.exists: follows links, false for a dangling one.
exists(f, path) == Kind(f, path) \notin {"absent", "broken"}

\* os.path.isdir: follows links; needs no permission on the directory itself.
isdir(f, path) == Kind(f, path) \in {"dir", "nodir", "link"}

\* os.path.islink.
islink(f, path) == Kind(f, path) = "link"

\* Whether os.listdir / os.scandir of the path succeeds.
CanList(f, path) == Kind(f, path) \in {"dir", "link"}

\* Whether os.path.getsize of a non-directory succeeds.
CanStat(f, path) == Kind(f, path) = "file"

\* The length in bytes of the regular file a component sequence names.
FileBytes(c) ==
    LET n == c[Len(c)]
        b == IF n = NameA THEN 10 ELSE IF n = NameB THEN 2048 ELSE 1536
    IN  b * (Len(c) - 1)

\* os.path.getsize of a regular file.
getsize(f, path) == FileBytes(Components(path))

\* os.listdir: the names in the directory, in the disk's own order.
listdir(f, path) ==
    LET order == IF f.rev THEN <<Nameb, NameA, NameB>> ELSE <<NameB, NameA, Nameb>>
    IN  SelectSeq(order, LAMBDA n : Kind(f, join(path, n)) # "absent")

----------------------------------------------------------------------------
(* dir_size *)

\* A dir_size that adds up the files of the top directory only.
dir_size_flat(f, path, follow_symlinks) ==
    IF ~CanList(f, path) THEN 0
    ELSE LET names == listdir(f, path)
             part(n) == IF CanStat(f, join(path, n)) THEN getsize(f, join(path, n)) ELSE 0
             sum[i \in 0..Len(names)] ==
                IF i = 0 THEN 0 ELSE sum[i - 1] + part(names[i])
         IN  sum[Len(names)]

RECURSIVE dir_size(_, _, _)
\* The total of os.walk(path, followlinks): nothing when the top cannot be
\* scanned; else the sizes of the non-directory entries that exist, plus the
\* walk of every directory entry that is entered (a link only with
\* followlinks).  Errors of scandir are swallowed by os.walk.
dir_size(f, path, follow_symlinks) ==
    IF ~CanList(f, path) THEN 0
    ELSE LET names == listdir(f, path)
             part(n) ==
                LET fp == join(path, n)
                IN  IF isdir(f, fp)
                    THEN IF follow_symlinks \/ ~islink(f, fp)
                         THEN dir_size(f, fp, follow_symlinks) ELSE 0
                    ELSE IF ~exists(f, fp) THEN 0
                    ELSE IF CanStat(f, fp) THEN getsize(f, fp) ELSE 0
             sum[i \in 0..Len(names)] ==
                IF i = 0 THEN 0 ELSE sum[i - 1] + part(names[i])
         IN  sum[Len(names)]

----------------------------------------------------------------------------
(* The sort of list_tree *)

\* Code points of the characters of names.
Code(c) == CASE c = "B" -> 66 [] c = "a" -> 97 [] c = "b" -> 98 [] c = "d" -> 100

\* str.lower.
lower(s) == [i \in 1..Len(s) |-> IF s[i] = "B" THEN "b" ELSE s[i]]

RECURSIVE StrLess(_, _)
\* s < t for strings: by code point, a proper prefix first.
StrLess(s, t) ==
    IF t = <<>> THEN FALSE
    ELSE IF s = <<>> THEN TRUE
    ELSE IF s[1] # t[1] THEN Code(s[1]) < Code(t[1])
    ELSE StrLess(Tail(s), Tail(t))

\* A sort key that forgets to lowercase the name.
KeyLessCaseSensitive(f, path, x, y) ==
    LET dx == isdir(f, join(path, x))
        dy == isdir(f, join(path, y))
    IN  IF dx # dy THEN dx ELSE StrLess(x, y)

\* key(x) < key(y) for the key (not isdir, lowercased name) of the sort.
KeyLess(f, path, x, y) ==
    LET dx == isdir(f, join(path, x))
        dy == isdir(f, join(path, y))
    IN  IF dx # dy THEN dx ELSE StrLess(lower(x), lower(y))

RECURSIVE sorted(_, _, _)
\* sorted(names, key=...): stable, so names of equal key keep their order.
sorted(f, path, names) ==
    IF names = <<>> THEN <<>>
    ELSE LET x == names[Len(names)]
             r == sorted(f, path, SubSeq(names, 1, Len(names) - 1))
             k == Cardinality({i \in 1..Len(r) : ~KeyLess(f, path, x, r[i])})
         IN  SubSeq(r, 1, k) \o <<x>> \o SubSeq(r, k + 1, Len(r))

----------------------------------------------------------------------------
(* What is printed *)

Inaccessible == <<"<", "i", "n", "a", "c", "c", "e", "s", "s", "i", "b", "l", "e", ">">>

\* One printed line.  kind tells which print statement wrote it; indent is
\* the number of two-space units before the marker; bullet is the "- " of a
\* file line.  path and bytes are not printed: they record the entry the
\* line is about and the size computed for it (-1 when none was).
Line(kind, text, indent, bullet, icon, name, size_str, path, bytes) ==
    [kind |-> kind, text |-> text, indent |-> indent, bullet |-> bullet,
     icon |-> icon, name |-> name, size_str |-> size_str, path |-> path,
     bytes |-> bytes]

Msg(text) == Line("msg", text, 0, FALSE, "", <<>>, <<>>, <<>>, -1)

\* The code fence (three backquotes) main prints around the tree.
Fence == Line("fence", "fence", 0, FALSE, "", <<>>, <<>>, <<>>, -1)

----------------------------------------------------------------------------
(* choose_excluded_folders *)

DecimalChars == {"0", "1", "2", "3", "4", "5", "6", "7", "8", "9"}

\* "^2" stands for the one character U+00B2 (superscript two): a digit to
\* str.isdigit, not a decimal to int.
DigitChars == DecimalChars \cup {"^2"}

\* str.isdigit.
isdigit(s) == s # <<>> /\ \A i \in 1..Len(s) : s[i] \in DigitChars

\* What int yields in the model when it raises ValueError.
ValueError == -1

RECURSIVE DecValue(_)
\* The number a text of decimal digits stands for.
DecValue(s) ==
    IF s = <<>> THEN 0
    ELSE 10 * DecValue(SubSeq(s, 1, Len(s) - 1))
         + (CHOOSE d \in 0..9 : DecDigit[d + 1] = s[Len(s)])

\* int(x) of a text without sign or underscore: the value, or ValueError.
int(x) ==
    LET t == strip(x)
    IN  IF t # <<>> /\ \A i \in 1..Len(t) : t[i] \in DecimalChars
        THEN DecValue(t) ELSE ValueError

\* The call choose_excluded_folders(root) when the user types typed at
\* the prompt: the set returned, the lines printed, and whether the prompt
\* was reached.
choose_excluded_folders(f, rootp, typed) ==
    IF ~CanList(f, rootp)
    THEN [excluded |-> {}, printed |-> <<Msg("Cannot read directory contents.")>>,
          read |-> FALSE]
    ELSE
    LET entries == SelectSeq(listdir(f, rootp), LAMBDA e : isdir(f, join(rootp, e)))
    IN  IF entries = <<>>
        THEN [excluded |-> {}, printed |-> <<>>, read |-> FALSE]
        ELSE
        LET menu == [i \in 1..Len(entries) |->
                        Line("menu", "[x]", i, FALSE, "", entries[i], <<>>, <<>>, -1)]
            to_exclude == strip(typed)
            kept == SelectSeq(split(to_exclude, ","), LAMBDA x : isdigit(strip(x)))
            raised == \E i \in 1..Len(kept) : int(kept[i]) = ValueError
            indices == [i \in 1..Len(kept) |-> int(kept[i])]
            chosen == {entries[indices[i]] :
                         i \in {j \in 1..Len(kept) : 1 <= indices[j] /\ indices[j] <= Len(entries)}}
            result == IF to_exclude = <<>> \/ raised THEN {} ELSE chosen
        IN  [excluded |-> result,
             printed |-> <<Msg("Top-level folders found:")>> \o menu
                         \o (IF to_exclude # <<>> /\ raised
                             THEN <<Msg("Invalid input - no folders excluded.")>> ELSE <<>>)
                         \o <<Msg("Excluded folders:")>>,
             read |-> TRUE]

----------------------------------------------------------------------------
(* Inputs *)

\* What the user may type as the root.
RootD == <<"/", "d">>
RootDSlash == <<" ", "/", "d", "/", " ">>
RootEntry == <<"/", "d", "/", "B">>
RootMissing == <<"/", "x">>

\* What the user may type at the Exclude prompt of main.
MainExcludeInputs == { <<>>, <<"1">>, <<"x", ",", "2">>, <<"1", ",", "^2">> }

\* What the user may type during a run of main: the root, the Exclude line
\* and the key that ends the run.
MainInputs ==
    {<<RootD, x, <<>>>> : x \in MainExcludeInputs}
    \cup {<<RootDSlash, <<"1">>, <<>>>>, <<RootEntry, <<"1">>, <<>>>>,
          <<RootMissing, <<>>, <<>>>>}

\* One token of an Exclude line.
Tokens == { <<"1">>, <<"2">>, <<"3">>, <<"0">>, <<"4">>, <<"x">>, <<" ", "2">>, <<"^2">>, <<>> }

\* The largest number of comma-separated tokens typed at the Exclude prompt.
MaxTokens == 2

RECURSIVE JoinComma(_)
\* The tokens with commas between them.
JoinComma(ts) ==
    IF Len(ts) = 1 THEN ts[1] ELSE ts[1] \o <<",">> \o JoinComma(Tail(ts))

ExcludeInputs ==
    {JoinComma(ts) : ts \in UNION {[1..n -> Tokens] : n \in 1..MaxTokens}}

\* The trees of a direct call of choose_excluded_folders: only the kinds of
\* the entries of /d matter to it.
ChooseFileSystems ==
    {f \in FileSystems : /\ \A n \in Names : f.top[n] \in {"absent", "file", "dir"}
                         /\ \A n \in SubNames : f.sub[n] = "absent"}

\* The exclusion sets of a direct call of list_tree.
ExcludedArgs == {e \in SUBSET Names : Cardinality(e) <= 1}

\* The largest power of 1024 that scales a byte count handed to human_size.
MaxShift == 5

\* Byte counts handed to human_size: (hi * 1024 + lo) * 1024^e.  They have
\* at most 20 significant bits, so the float division is exact.
HumanInputs ==
    {rstrip([i \in 1..(e + 2) |-> IF i = e + 1 THEN lo ELSE IF i = e + 2 THEN hi ELSE 0], {0}) :
        e \in 0..MaxShift, lo \in {0, 5, 10, 128, 384, 512, 1019, 1023},
        hi \in {0, 1, 2, 1023}}

----------------------------------------------------------------------------
(* The program *)

\* An activation of list_tree: its arguments, the sorted entries once the
\* listing has succeeded, and the index of the next entry of the for loop.
Frame(path, follow_symlinks, excl, nestedLevel) ==
    [path |-> path, follow_symlinks |-> follow_symlinks, excluded |-> excl,
     nestedLevel |-> nestedLevel, entries |-> <<>>, i |-> 1, listed |-> FALSE]

\* State shared by all entry points before anything has run.
Idle ==
    /\ root = <<>>
    /\ size_bytes = 0
    /\ out = <<>>
    /\ exit_status = -1
    /\ hs_ret = <<>>

Init ==
    /\ Idle
    /\ mode = "main"
    /\ pc = "main"
    /\ fs \in FileSystems
    /\ stdin \in MainInputs
    /\ excluded = {}
    /\ follow = FALSE
    /\ stack = <<>>
    /\ hs_arg = <<>>

\* root = input(...).strip()
MainInput ==
    /\ pc = "main"
    /\ root' = strip(Head(stdin))
    /\ stdin' = Tail(stdin)
    /\ pc' = "check"
    /\ UNCHANGED <<mode, fs, excluded, follow, size_bytes, stack, out, exit_status,
                   hs_arg, hs_ret>>

\* if not os.path.exists(root): print(...); sys.exit(1)
MainMissing ==
    /\ pc = "check"
    /\ ~exists(fs, root)
    /\ out' = Append(out, Msg("Path does not exist:"))
    /\ exit_status' = 1
    /\ pc' = "exited"
    /\ UNCHANGED <<mode, fs, stdin, root, excluded, follow, size_bytes, stack,
                   hs_arg, hs_ret>>

\* excluded = choose_excluded_folders(root)
MainChoose ==
    /\ pc = "check"
    /\ exists(fs, root)
    /\ LET r == choose_excluded_folders(fs, root, Head(stdin))
       IN  /\ excluded' = r.excluded
           /\ out' = out \o r.printed
           /\ stdin' = IF r.read THEN Tail(stdin) ELSE stdin
    /\ pc' = "size"
    /\ UNCHANGED <<mode, fs, root, follow, size_bytes, stack, exit_status,
                   hs_arg, hs_ret>>

\* size_bytes = dir_size(root, follow_symlinks=True)
MainSize ==
    /\ pc = "size"
    /\ size_bytes' = dir_size(fs, root, TRUE)
    /\ pc' = "header"
    /\ UNCHANGED <<mode, fs, stdin, root, excluded, follow, stack, out,
                   exit_status, hs_arg, hs_ret>>

\* base_name = os.path.basename(root) or root
base_name(rootp) == IF basename(rootp) # <<>> THEN basename(rootp) ELSE rootp

\* print(fence); print(root line); list_tree(root, follow_symlinks=True, excluded=excluded)
MainHeader ==
    /\ pc = "header"
    /\ out' = out \o <<Fence,
                       Line("root", "[ ]", 0, FALSE, "FO", base_name(root),
                            human_size(Limbs(size_bytes)), root, size_bytes)>>
    /\ follow' = TRUE
    /\ stack' = <<Frame(root, TRUE, excluded, 1)>>
    /\ pc' = "list_tree"
    /\ UNCHANGED <<mode, fs, stdin, root, excluded, size_bytes, exit_status,
                   hs_arg, hs_ret>>

\* print(fence)
MainFooter ==
    /\ pc = "footer"
    /\ out' = Append(out, Fence)
    /\ pc' = "key"
    /\ UNCHANGED <<mode, fs, stdin, root, excluded, follow, size_bytes, stack,
                   exit_status, hs_arg, hs_ret>>

\* input(...); sys.exit()
MainExit ==
    /\ pc = "key"
    /\ stdin # <<>>
    /\ stdin' = Tail(stdin)
    /\ exit_status' = 0
    /\ pc' = "exited"
    /\ UNCHANGED <<mode, fs, root, excluded, follow, size_bytes, stack, out,
                   hs_arg, hs_ret>>

----------------------------------------------------------------------------
(* list_tree *)

Top == stack[Len(stack)]

\* The stack with the innermost activation advanced to its next entry.
Advanced == [stack EXCEPT ![Len(stack)].i = @ + 1]

\* Where control goes when the innermost activation returns.
AfterReturn ==
    IF Len(stack) > 1 THEN "list_tree"
    ELSE IF mode = "main" THEN "footer" ELSE "done"

\* A list_tree that forgets the exclusion test.
SkippedNever(name, excl) == FALSE

\* if name in excluded: continue
Skipped(name, excl) == name \in excl

\* A recursive call that leaves excluded at its default.
PassExcludedNone(excl) == {}

\* The excluded argument of the recursive call.
PassExcluded(excl) == excl

\* A recursive call that forgets to deepen the indentation.
ChildLevelSame(nestedLevel) == nestedLevel

\* The nestedLevel argument of the recursive call.
ChildLevel(nestedLevel) == nestedLevel + 1

\* An except branch that returns without a word.
InaccessibleLinesSilent(path, nestedLevel) == <<>>

\* What the except branch of the listing prints.
InaccessibleLines(path, nestedLevel) ==
    <<Line("marker", "[ ]", nestedLevel, FALSE, "!!", basename(path), Inaccessible,
           path, -1)>>

\* entries = sorted(os.listdir(path), key=...) succeeds.
ListTreeList ==
    /\ pc = "list_tree"
    /\ ~Top.listed
    /\ CanList(fs, Top.path)
    /\ stack' = [stack EXCEPT ![Len(stack)] =
                    [@ EXCEPT !.entries = sorted(fs, Top.path, listdir(fs, Top.path)),
                              !.listed = TRUE]]
    /\ UNCHANGED <<mode, pc, fs, stdin, root, excluded, follow, size_bytes, out,
                   exit_status, hs_arg, hs_ret>>

\* os.listdir raises: print the marker and return.
ListTreeInaccessible ==
    /\ pc = "list_tree"
    /\ ~Top.listed
    /\ ~CanList(fs, Top.path)
    /\ out' = out \o InaccessibleLines(Top.path, Top.nestedLevel)
    /\ stack' = SubSeq(stack, 1, Len(stack) - 1)
    /\ pc' = AfterReturn
    /\ UNCHANGED <<mode, fs, stdin, root, excluded, follow, size_bytes,
                   exit_status, hs_arg, hs_ret>>

\* An entry whose name is in excluded is passed over.
ListTreeSkip ==
    /\ pc = "list_tree"
    /\ Top.listed
    /\ Top.i <= Len(Top.entries)
    /\ Skipped(Top.entries[Top.i], Top.excluded)
    /\ stack' = Advanced
    /\ UNCHANGED <<mode, pc, fs, stdin, root, excluded, follow, size_bytes, out,
                   exit_status, hs_arg, hs_ret>>

\* A directory entry: its size by dir_size, its line, the recursive call.
ListTreeDir ==
    /\ pc = "list_tree"
    /\ Top.listed
    /\ Top.i <= Len(Top.entries)
    /\ LET name == Top.entries[Top.i]
           full == join(Top.path, name)
           bytes == dir_size(fs, full, Top.follow_symlinks)
       IN  /\ ~Skipped(name, Top.excluded)
           /\ isdir(fs, full)
           /\ out' = Append(out, Line("entry", "[ ]", Top.nestedLevel, FALSE, "FO", name,
                                      human_size(Limbs(bytes)), full, bytes))
           /\ stack' = Append(Advanced,
                              Frame(full, Top.follow_symlinks, PassExcluded(Top.excluded),
                                    ChildLevel(Top.nestedLevel)))
    /\ UNCHANGED <<mode, pc, fs, stdin, root, excluded, follow, size_bytes,
                   exit_status, hs_arg, hs_ret>>

\* Any other entry: its size by os.path.getsize, or <inaccessible> when
\* that raises, and its line.
ListTreeFile ==
    /\ pc = "list_tree"
    /\ Top.listed
    /\ Top.i <= Len(Top.entries)
    /\ LET name == Top.entries[Top.i]
           full == join(Top.path, name)
           ok == CanStat(fs, full)
           bytes == IF ok THEN getsize(fs, full) ELSE -1
       IN  /\ ~Skipped(name, Top.excluded)
           /\ ~isdir(fs, full)
           /\ out' = Append(out, Line("entry", "[ ]", Top.nestedLevel, TRUE, "FI", name,
                                      IF ok THEN human_size(Limbs(bytes)) ELSE Inaccessible,
                                      full, bytes))
    /\ stack' = Advanced
    /\ UNCHANGED <<mode, pc, fs, stdin, root, excluded, follow, size_bytes,
                   exit_status, hs_arg, hs_ret>>

\* The for loop is over: return to the caller.
ListTreeReturn ==
    /\ pc = "list_tree"
    /\ Top.listed
    /\ Top.i > Len(Top.entries)
    /\ stack' = SubSeq(stack, 1, Len(stack) - 1)
    /\ pc' = AfterReturn
    /\ UNCHANGED <<mode, fs, stdin, root, excluded, follow, size_bytes, out,
                   exit_status, hs_arg, hs_ret>>

ListTreeNext ==
    \/ ListTreeList
    \/ ListTreeInaccessible
    \/ ListTreeSkip
    \/ ListTreeDir
    \/ ListTreeFile
    \/ ListTreeReturn

----------------------------------------------------------------------------
(* The program run from main *)

Next ==
    \/ MainInput
    \/ MainMissing
    \/ MainChoose
    \/ MainSize
    \/ MainHeader
    \/ ListTreeNext
    \/ MainFooter
    \/ MainExit

Spec == Init /\ [][Next]_vars

----------------------------------------------------------------------------
(* list_tree called on /d by itself *)

InitListTree ==
    /\ Idle
    /\ mode = "list_tree"
    /\ pc = "list_tree"
    /\ fs \in FileSystems
    /\ stdin = <<>>
    /\ excluded \in ExcludedArgs
    /\ follow \in BOOLEAN
    /\ stack = <<Frame(RootD, follow, excluded, 1)>>
    /\ hs_arg = <<>>

SpecListTree == InitListTree /\ [][ListTreeNext]_vars

----------------------------------------------------------------------------
(* choose_excluded_folders called on /d by itself *)

InitChoose ==
    /\ Idle
    /\ mode = "choose"
    /\ pc = "call"
    /\ fs \in ChooseFileSystems
    /\ stdin \in {<<x>> : x \in ExcludeInputs}
    /\ excluded = {}
    /\ follow = FALSE
    /\ stack = <<>>
    /\ hs_arg = <<>>

ChooseCall ==
    /\ mode = "choose"
    /\ pc = "call"
    /\ LET r == choose_excluded_folders(fs, RootD, Head(stdin))
       IN  /\ excluded' = r.excluded
           /\ out' = out \o r.printed
           /\ stdin' = IF r.read THEN Tail(stdin) ELSE stdin
    /\ pc' = "done"
    /\ UNCHANGED <<mode, fs, root, follow, size_bytes, stack, exit_status,
                   hs_arg, hs_ret>>

SpecChoose == InitChoose /\ [][ChooseCall]_vars

----------------------------------------------------------------------------
(* human_size called by itself *)

InitHumanSize ==
    /\ Idle
    /\ mode = "human_size"
    /\ pc = "call"
    /\ fs \in {f \in FileSystems : \A n \in Names : f.top[n] = "absent" /\ ~f.rev
                                   /\ \A m \in SubNames : f.sub[m] = "absent"}
    /\ stdin = <<>>
    /\ excluded = {}
    /\ follow = FALSE
    /\ stack = <<>>
    /\ hs_arg \in HumanInputs

HumanSizeCall ==
    /\ mode = "human_size"
    /\ pc = "call"
    /\ hs_ret' = human_size(hs_arg)
    /\ pc' = "done"
    /\ UNCHANGED <<mode, fs, stdin, root, excluded, follow, size_bytes, stack, out,
                   exit_status, hs_arg>>

SpecHumanSize == InitHumanSize /\ [][HumanSizeCall]_vars

----------------------------------------------------------------------------
(* Vocabulary of the properties *)

\* list_tree has returned to its first caller.
TreeDone ==
    \/ mode = "main" /\ pc \in {"footer", "key"}
    \/ mode = "main" /\ pc = "exited" /\ exit_status = 0
    \/ mode = "list_tree" /\ pc = "done"

\* The lines of the tree below the root line, by their place in the output.
EntryLines == {i \in DOMAIN out : out[i].kind \in {"entry", "marker"}}
DirLines == {i \in DOMAIN out : out[i].kind \in {"entry", "root"} /\ out[i].icon = "FO"}

Comp(i) == Components(out[i].path)
Parent(c) == SubSeq(c, 1, Len(c) - 1)
IsPrefix(a, b) == Len(a) <= Len(b) /\ SubSeq(b, 1, Len(a)) = a

\* Line i is a line for a child of the directory of line d.
ChildOf(i, d) == out[i].kind = "entry" /\ Comp(i) # <<>> /\ Parent(Comp(i)) = Comp(d)

RECURSIVE SumOver(_, _)
\* The sum of g[x] over the finite set S.
SumOver(S, g) ==
    IF S = {} THEN 0
    ELSE LET x == CHOOSE y \in S : TRUE IN g[x] + SumOver(S \ {x}, g)

RECURSIVE BytesUnder(_, _)
\* The bytes of every regular file below the component sequence c.
BytesUnder(f, c) ==
    LET kids == {c \o <<a>> : a \in Names}
        here == {n \in kids : NodeKind(f, Tail(n)) # "absent"}
    IN  SumOver(here, [n \in here |->
                          IF NodeKind(f, Tail(n)) = "file" THEN FileBytes(n)
                          ELSE BytesUnder(f, n)])

\* The bytes of every regular file below path, however it is reached.
BytesBelow(f, path) ==
    LET c == Components(path)
    IN  IF c = <<>> \/ c[1] # Mount THEN 0 ELSE BytesUnder(f, c)

\* The bytes an entry stands for: its length if it is a file, all the
\* bytes below it if it is a directory, nothing if it cannot be read.
BytesOf(f, path) == IF Kind(f, path) = "file" THEN getsize(f, path) ELSE BytesBelow(f, path)

\* The size on line i as a number, an unreadable size counting as zero.
\* The path the outermost call of list_tree was given.
TreeRoot == IF mode = "main" THEN root ELSE RootD

Shown(i) == IF out[i].bytes < 0 THEN 0 ELSE out[i].bytes

----------------------------------------------------------------------------
(* C1 *)

\* C1: in a run of main, no line is ever printed for an excluded subfolder
\* B of the root or for anything below B, while the root line shows the
\* bytes of every file below the root, those below B included.
C1_ExcludedHiddenRootSizeWhole ==
    mode = "main" =>
        /\ \A B \in excluded :
              LET b == Components(join(root, B))
              IN  \A i \in EntryLines : ~IsPrefix(b, Comp(i))
        /\ \A i \in DOMAIN out : out[i].kind = "root" =>
              /\ out[i].bytes = BytesBelow(fs, root)
              /\ out[i].size_str = human_size(Limbs(BytesBelow(fs, root)))

\* A finished run in which an excluded subfolder holds bytes, below a
\* subdirectory of its own among them, and other entries were printed.
C1_Witness ==
    /\ mode = "main" /\ pc = "exited" /\ exit_status = 0
    /\ EntryLines # {}
    /\ \E B \in excluded :
          /\ isdir(fs, join(root, B))
          /\ \E n \in Names : isdir(fs, join(join(root, B), n))
                              /\ BytesBelow(fs, join(join(root, B), n)) > 0
    /\ \E i \in DOMAIN out : out[i].kind = "root" /\ out[i].bytes > 0

----------------------------------------------------------------------------
(* C2 *)

\* C2: of two printed siblings, a directory never comes after a file, and
\* two of the same kind are in case-insensitive lexicographic order.
C2_SiblingOrder ==
    LET up == [i \in DOMAIN out |-> Parent(Components(out[i].path))]
    IN  \A i, j \in EntryLines :
            (/\ i < j
             /\ out[i].kind = "entry" /\ out[j].kind = "entry"
             /\ up[i] = up[j])
            => /\ ~(out[i].icon = "FI" /\ out[j].icon = "FO")
               /\ out[i].icon = out[j].icon =>
                     ~StrLess(lower(out[j].name), lower(out[i].name))

\* Siblings printed where the directory's name sorts after the file's, and
\* two of one kind whose order by code point is the other way round.
C2_Witness ==
    /\ \E i, j \in EntryLines :
          /\ i < j /\ Parent(Comp(i)) = Parent(Comp(j))
          /\ out[i].icon = "FO" /\ out[j].icon = "FI"
          /\ StrLess(lower(out[j].name), lower(out[i].name))
    /\ \E i, j \in EntryLines :
          /\ i < j /\ Parent(Comp(i)) = Parent(Comp(j))
          /\ out[i].icon = out[j].icon
          /\ out[i].kind = "entry" /\ out[j].kind = "entry"
          /\ StrLess(out[j].name, out[i].name)

----------------------------------------------------------------------------
(* C5 *)

TreeKinds == {"fence", "root", "entry", "marker"}

\* Some statement of the program can run: there is a line left to read
\* where one is read, and an activation of list_tree while it runs (its
\* steps cover every case of the listing and of the entry at hand).
CanStep ==
    \/ pc \in {"main", "key"} /\ stdin # <<>>
    \/ pc \in {"check", "size", "header", "footer"}
    \/ /\ pc = "list_tree"
       /\ stack # <<>>
       /\ \/ ~Top.listed
          \/ Top.i > Len(Top.entries)
          \/ Top.entries[Top.i] \in Names

\* C5: main exits early exactly when the root does not exist, then with a
\* non-zero status and before anything of the tree is computed or printed;
\* otherwise no step of the run fails, and it ends after the closing fence
\* with status 0.
C5_OnlyMissingRootIsFatal ==
    mode = "main" =>
        /\ pc = "exited" =>
              (exit_status # 0 <=> Kind(fs, root) \in {"absent", "broken"})
        /\ exit_status \notin {-1, 0} =>
              /\ \A i \in DOMAIN out : out[i].kind \notin TreeKinds
              /\ stack = <<>>
              /\ size_bytes = 0
        /\ exit_status = 0 =>
              /\ out # <<>>
              /\ out[Len(out)] = Fence
              /\ Cardinality({i \in DOMAIN out : out[i].kind = "fence"}) = 2
        /\ pc # "exited" => CanStep

\* A run that ended with status 0 although an entry could not be listed,
\* another could not be measured, and the exclusion input was malformed.
C5_Witness ==
    /\ mode = "main" /\ pc = "exited" /\ exit_status = 0
    /\ \E i \in EntryLines : out[i].kind = "marker"
    /\ \E i \in EntryLines : out[i].kind = "entry" /\ out[i].size_str = Inaccessible
    /\ \E i \in DOMAIN out : out[i].text = "Invalid input - no folders excluded."

----------------------------------------------------------------------------
(* C9 *)

\* C9: the output is a depth-first pre-order.  The root line, labelled with
\* the root's base name (the whole root string when that is empty), comes
\* before every other line of the tree; a line comes after the line of its
\* directory and one level deeper; and the lines of a directory's subtree
\* come in one block right after the directory's line.
C9_DepthFirstPreOrder ==
    LET cs == [i \in DOMAIN out |-> Components(out[i].path)]
        base == Len(Components(TreeRoot))
    IN
    /\ mode = "main" =>
          \A i \in DOMAIN out :
              /\ out[i].kind \in {"entry", "marker"} =>
                    \E r \in 1..(i - 1) : out[r].kind = "root"
              /\ out[i].kind = "root" =>
                    /\ out[i].indent = 0
                    /\ out[i].name = IF basename(root) # <<>> THEN basename(root) ELSE root
    /\ \A i \in EntryLines :
          LET up == IF out[i].kind = "marker" THEN cs[i] ELSE Parent(cs[i])
              above == {d \in 1..(i - 1) : out[d].kind \in {"entry", "root"}
                                            /\ out[d].icon = "FO" /\ cs[d] = up}
          IN  /\ IF above = {} THEN out[i].indent = 1
                 ELSE \A d \in above : out[i].indent = out[d].indent + 1
              /\ (out[i].kind = "entry" /\ Len(cs[i]) > base + 1) =>
                    \E d \in above : out[d].kind = "entry"
    /\ \A i, k \in EntryLines :
          (i < k /\ out[i].kind = "entry" /\ IsPrefix(cs[i], cs[k])) =>
              \A j \in (i + 1)..(k - 1) : IsPrefix(cs[i], cs[j])

\* A finished tree with a line three levels deep and, after it, a line for
\* a later entry of the root.
C9_Witness ==
    /\ mode = "main" /\ pc = "exited" /\ exit_status = 0
    /\ \E i, k \in EntryLines :
          /\ i < k
          /\ out[i].indent = 3
          /\ out[k].indent = 1
    /\ \E i \in DOMAIN out : out[i].kind = "root" /\ out[i].name = root

----------------------------------------------------------------------------
(* C3 *)

\* The lines for the children of the directory of line d.
Kids(d) == {i \in EntryLines : ChildOf(i, d)}

\* The entries of the directory of line d that the exclusion set hides.
Hidden(d) ==
    {n \in Names : Kind(fs, join(out[d].path, n)) # "absent" /\ n \in excluded}

\* C3 as stated: once the tree is printed, the size on a directory's line is
\* the sum of the sizes on the lines of its children, which are the
\* children the exclusion set does not filter.
C3_SizeIsSumOfRenderedChildren ==
    (mode = "main" /\ TreeDone) =>
        \A d \in DirLines :
            out[d].bytes = SumOver(Kids(d), [i \in Kids(d) |-> Shown(i)])

\* C3 amended: in a run of main, the size on a directory's line is the sum
\* over all its direct children, the hidden ones included: the sizes on the
\* lines of the printed children plus the bytes of the excluded ones.
C3_SizeIsSumOfAllChildren ==
    (mode = "main" /\ TreeDone) =>
        \A d \in DirLines :
            out[d].bytes =
                SumOver(Kids(d), [i \in Kids(d) |-> Shown(i)])
                + SumOver(Hidden(d),
                          [n \in Hidden(d) |-> BytesOf(fs, join(out[d].path, n))])

\* A finished run with a directory line whose directory has a printed child
\* and an excluded child, both holding bytes.
C3_Witness ==
    /\ mode = "main" /\ pc = "exited" /\ exit_status = 0
    /\ \E d \in DirLines :
          /\ \E i \in Kids(d) : out[i].bytes > 0
          /\ \E n \in Hidden(d) : BytesOf(fs, join(out[d].path, n)) > 0

----------------------------------------------------------------------------
(* C4 *)

\* The subdirectories list_tree met whose listing failed.
FailedDirs ==
    {out[i].path : i \in {j \in EntryLines : out[j].kind = "entry"
                                             /\ Kind(fs, out[j].path) = "nodir"}}

LinesFor(p) == {j \in DOMAIN out : out[j].path = p}

\* What holds of the other entries of the directory that holds p: each one
\* that is not excluded has one line, and a file's line shows its length.
SiblingsPrinted(p) ==
    LET dir == Parent(Components(p))
    IN  \A n \in Names :
            (NodeKind(fs, Tail(dir \o <<n>>)) # "absent" /\ n \notin excluded) =>
                LET its == {j \in EntryLines : out[j].kind = "entry"
                                               /\ Comp(j) = dir \o <<n>>}
                IN  /\ Cardinality(its) = 1
                    /\ NodeKind(fs, Tail(dir \o <<n>>)) = "file" =>
                          \A j \in its :
                              /\ out[j].bytes = FileBytes(dir \o <<n>>)
                              /\ out[j].size_str = human_size(Limbs(FileBytes(dir \o <<n>>)))

NothingBelow(p) ==
    \A j \in EntryLines :
        IsPrefix(Components(p), Comp(j)) => Comp(j) = Components(p)

\* C4 as stated: a subdirectory whose listing fails has exactly one line,
\* the inaccessible marker; nothing is printed below it and its siblings
\* are printed once each with their sizes.
C4_FailedDirHasOnlyMarker ==
    TreeDone =>
        \A p \in FailedDirs :
            /\ Cardinality(LinesFor(p)) = 1
            /\ \A j \in LinesFor(p) : out[j].kind = "marker"
            /\ NothingBelow(p)
            /\ SiblingsPrinted(p)

\* C4 amended: a subdirectory whose listing fails has exactly two lines, its
\* directory line showing 0B and right after it, one level deeper, the
\* inaccessible marker; nothing is printed below it and its siblings are
\* printed once each with their sizes.
C4_FailedDirHasLineAndMarker ==
    TreeDone =>
        \A p \in FailedDirs :
            /\ \E i \in LinesFor(p) :
                  /\ LinesFor(p) = {i, i + 1}
                  /\ out[i].kind = "entry" /\ out[i].icon = "FO"
                  /\ out[i].bytes = 0 /\ out[i].size_str = <<"0", "B">>
                  /\ out[i + 1].kind = "marker" /\ out[i + 1].icon = "!!"
                  /\ out[i + 1].name = out[i].name
                  /\ out[i + 1].size_str = Inaccessible
                  /\ out[i + 1].indent = out[i].indent + 1
            /\ NothingBelow(p)
            /\ SiblingsPrinted(p)

\* A finished run in which a directory held a subdirectory that could not
\* be listed and two files.
C4_Witness ==
    /\ TreeDone /\ pc = "exited"
    /\ \E p \in FailedDirs :
          Cardinality({j \in EntryLines :
                          /\ out[j].kind = "entry" /\ out[j].icon = "FI"
                          /\ out[j].bytes > 0
                          /\ Parent(Comp(j)) = Parent(Components(p))}) = 2

----------------------------------------------------------------------------
(* C8 *)

\* C8 as stated: the exclusion set is applied to the children of the root
\* only, so an entry two or more levels down whose name is excluded is
\* printed whenever its directory is.
C8_ExclusionOnlyAtTopLevel ==
    (mode = "main" /\ TreeDone) =>
        \A d \in DirLines :
            (out[d].kind = "entry" /\ CanList(fs, out[d].path)) =>
                \A n \in Hidden(d) :
                    \E j \in EntryLines : Comp(j) = Comp(d) \o <<n>>

\* C8 amended: the exclusion set is applied at every depth: no line is
\* printed for an entry whose name is excluded, at whatever level, nor for
\* anything below such an entry.
C8_ExclusionAtEveryDepth ==
    mode = "main" =>
        \A i \in EntryLines :
            \A k \in (Len(Components(TreeRoot)) + 1)..Len(Comp(i)) :
                Comp(i)[k] \notin excluded

\* A finished run in which a printed subdirectory of the root holds a
\* directory with an excluded name and bytes below it.
C8_Witness ==
    /\ mode = "main" /\ pc = "exited" /\ exit_status = 0
    /\ \E d \in DirLines :
          /\ out[d].kind = "entry"
          /\ \E n \in Hidden(d) :
                /\ isdir(fs, join(out[d].path, n))
                /\ BytesBelow(fs, join(out[d].path, n)) > 0

----------------------------------------------------------------------------
(* C6 *)

\* The set C6 describes: the folders at the in-range indices among the
\* tokens that int reads as numbers, each token judged on its own.
ClaimedSelection(f, rootp, typed) ==
    LET entries == IF CanList(f, rootp)
                   THEN SelectSeq(listdir(f, rootp), LAMBDA e : isdir(f, join(rootp, e)))
                   ELSE <<>>
        tokens == split(strip(typed), ",")
        valid == {k \in 1..Len(tokens) :
                     /\ int(tokens[k]) # ValueError
                     /\ 1 <= int(tokens[k]) /\ int(tokens[k]) <= Len(entries)}
    IN  {entries[int(tokens[k])] : k \in valid}

\* C6: choose_excluded_folders returns exactly the folders at the valid
\* in-range indices of the input; a non-numeric or out-of-range token is
\* ignored by itself and never drops another selection.
C6_EachTokenJudgedAlone ==
    [][ChooseCall => excluded' = ClaimedSelection(fs, RootD, Head(stdin))]_vars

----------------------------------------------------------------------------
(* C7 *)

RECURSIVE DivTimes(_, _)
\* x divided by 1024.0 k times.
DivTimes(x, k) == IF k = 0 THEN x ELSE DivTimes(Div1024(x), k - 1)

\* The text C7 describes: below 1024 the count and B; else the count over
\* 1024^k for the first unit that brings it below 1024 (PB when none does),
\* to two decimals with trailing zeros and a trailing point trimmed.
ClaimedHumanSize(n) ==
    IF Len(n) <= 1 THEN Dec(LimbsToNat(n)) \o <<"B">>
    ELSE LET k == IF Len(n) - 1 < Len(Units) THEN Len(n) - 1 ELSE Len(Units)
         IN  rstrip(rstrip(Format2f(DivTimes(ToFloat(n), k)), {"0"}), {"."}) \o Units[k]

\* C7: human_size returns the text described, in every unit range.
C7_TrimmedInEveryRange ==
    (mode = "human_size" /\ pc = "done") => hs_ret = ClaimedHumanSize(hs_arg)

----------------------------------------------------------------------------
(* C10 *)

\* C10: with follow_symlinks false, no line is printed for anything below
\* a symbolic link to a directory, and the size computed for such a link
\* counts none of the files behind it.
C10_LinksNotFollowedUnlessAsked ==
    (mode = "list_tree" /\ ~follow) =>
        \A i \in EntryLines :
            /\ \A k \in 1..(Len(Comp(i)) - 1) :
                  NodeKind(fs, Tail(SubSeq(Comp(i), 1, k))) # "link"
            /\ (out[i].kind = "entry" /\ Kind(fs, out[i].path) = "link") => out[i].bytes = 0

====
